---- MODULE Spec2Model ----
(***************************************************************************)
(* The path-search layer of the Wikipedia link-path finder (WikiCrawler):  *)
(* find_path_bfs, find_path_best_first and find_path_bidi over the         *)
(* implicit, API-backed link graph with the per-page link caches.          *)
(*                                                                         *)
(* The wiki is the environment.  A page's links become known to the        *)
(* crawler only when get_links / get_linkshere fetches them; the fetch     *)
(* draws the answer from every set the wiki could hold that agrees with    *)
(* what earlier fetches already showed.  One loop iteration of a search    *)
(* is one action.                                                          *)
(***************************************************************************)
EXTENDS Integers, Sequences, FiniteSets, TLC

\* ---- bounds of the model
NumPages == 5      \* canonical pages of the wiki
MaxLinks == 4      \* links of the wiki that fetches may reveal in one run
MaxDepth == 3      \* largest max_depth argument
MaxScore == 1      \* heuristic scores are 0..MaxScore
MaxBranch == 2     \* largest max_branch argument
MaxFailures == 1   \* link fetches that may raise in one run
MaxCalls == 2      \* calls made on one crawler
MaxBatches == 3    \* responses the API may take to list the links of one page
MaxWords == 2      \* words (possibly empty) joined by spaces into a title text

Pages == 1..NumPages
None == 0
RedirectTitle == NumPages + 1      \* a title that redirects to page 1
MissingTitle == NumPages + 2       \* a title of no page
Titles == Pages \cup {RedirectTitle, MissingTitle}
\* The searches treat titles by equality only (the order of set iteration is free),
\* so pages are interchangeable: the calls name the start by a title of page 1 and
\* the target by a title of page 1 or 2, or name a title of no page.
StartTitles == {1, RedirectTitle, MissingTitle}
TargetTitles == {1, 2, RedirectTitle, MissingTitle}
VisitedCaps == {2, NumPages + 1}   \* max_visited arguments: a tight cap, a loose one

VARIABLES
  pc,               \* "idle" | "loop" | "done"
  outcome,          \* of the finished call: "path" | "none" | "ValueError" | "RuntimeError"
  result,           \* the returned path (<<>> when none)
  strategy, start, target, max_depth, max_visited, max_branch,
  q, visited, visited_count,                \* find_path_bfs / find_path_best_first locals
  heap, uid_counter,                        \* find_path_best_first locals
  q_fwd, q_bwd, visited_fwd, visited_bwd, parent_fwd, parent_bwd,   \* find_path_bidi locals
  link_cache, linkshere_cache,              \* WikiCrawler caches (dicts)
  crawl_graph,      \* WikiCrawler.crawl_graph: [nodes, edges]
  decision_info,    \* WikiCrawler.decision_info: its keys, the (from, to) pairs
  calls,            \* how many calls were made on this crawler
  stdout,           \* what main has printed, in order
  batches,          \* the API responses the latest links fetch went through, in order
  scores,           \* title -> _title_score(title, target), as far as computed
  dequeued,         \* history: the entries popped, in order
  enqueued,         \* history: the entries pushed, in order
  fetch_log,        \* history: the titles get_links / get_linkshere was called with
  failures,         \* history: how many link fetches raised
  api_log,          \* history: the links / linkshere requests sent to the API
  returned          \* history: what the latest get_links / get_linkshere call returned

inputs == <<strategy, start, target, max_depth, max_visited, max_branch>>
ctl == <<pc, outcome, result>>
unilocals == <<q, visited, visited_count>>
bestlocals == <<heap, uid_counter, scores>>
bidilocals == <<q_fwd, q_bwd, visited_fwd, visited_bwd, parent_fwd, parent_bwd>>
caches == <<link_cache, linkshere_cache>>
graphvars == <<crawl_graph, decision_info>>
session == <<calls, stdout, batches>>
history == <<dequeued, enqueued, fetch_log, failures, api_log, returned>>
vars == <<ctl, inputs, unilocals, bestlocals, bidilocals, caches, graphvars, session, history>>

EmptyDict == [x \in {} |-> None]

\* dict.get(key): the value, or None for a missing key
DictGet(d, k) == IF k \in DOMAIN d THEN d[k] ELSE None

\* every order in which a Python set can be iterated
RECURSIVE Orders(_)
Orders(S) ==
  IF S = {} THEN {<<>>}
  ELSE UNION {{<<x>> \o r : r \in Orders(S \ {x})} : x \in S}

Last(s) == s[Len(s)]

\* ---- the wiki behind the API, as far as fetches have shown it
KnownLink(a, b) ==
  \/ a \in DOMAIN link_cache /\ b \in link_cache[a]
  \/ b \in DOMAIN linkshere_cache /\ a \in linkshere_cache[b]

KnownLinks ==
  UNION ({{p} \X link_cache[p] : p \in DOMAIN link_cache}
         \cup {linkshere_cache[t] \X {t} : t \in DOMAIN linkshere_cache})

KnownAbsent(a, b) ==
  \/ a \in DOMAIN link_cache /\ b \notin link_cache[a]
  \/ b \in DOMAIN linkshere_cache /\ a \notin linkshere_cache[b]

\* the API can answer `links` for `title` (the union of all plcontinue batches):
\* it agrees with what earlier fetches showed of the wiki
ApiLinks(title, links) ==
  /\ \A t \in Pages : (KnownLink(title, t) => t \in links)
                      /\ (KnownAbsent(title, t) => t \notin links)
  /\ Cardinality(KnownLinks \cup ({title} \X links)) <= MaxLinks

\* the API can answer `incoming` as the pages linking to `title`
ApiLinksHere(title, incoming) ==
  /\ \A p \in Pages : (KnownLink(p, title) => p \in incoming)
                      /\ (KnownAbsent(p, title) => p \notin incoming)
  /\ Cardinality(KnownLinks \cup (incoming \X {title})) <= MaxLinks

resolve_title(title) ==
  IF title \in Pages THEN title
  ELSE IF title = RedirectTitle THEN 1
  ELSE None

\* a links (prop = "links") or linkshere request for a canonical title
Request(prop, title) == [prop |-> prop, title |-> title]

\* what a get_links / get_linkshere call gave its caller
Answer(links, raised) == [links |-> links, raised |-> raised]

\* nx.DiGraph() with the given nodes
DiGraph(nodes) == [nodes |-> nodes, edges |-> {}]

\* add_node / add_edge for each edge of `edges`
add_edges(G, edges) ==
  [nodes |-> G.nodes \cup {e[1] : e \in edges} \cup {e[2] : e \in edges},
   edges |-> G.edges \cup edges]

\* the cache looked up by the title as given, not by the canonical title
get_links_by_given_title(title, links, raised) ==
  LET normalized_title == resolve_title(title)
  IN /\ fetch_log' = Append(fetch_log, title)
     /\ returned' = Answer(links, raised)
     /\ UNCHANGED linkshere_cache
     /\ \/ /\ normalized_title = None
           /\ ~raised /\ links = {}
           /\ UNCHANGED <<link_cache, failures, api_log>>
        \/ /\ normalized_title # None /\ title \in DOMAIN link_cache
           /\ ~raised /\ links = link_cache[title]
           /\ UNCHANGED <<link_cache, failures, api_log>>
        \/ /\ normalized_title # None /\ title \notin DOMAIN link_cache
           /\ ~raised /\ ApiLinks(normalized_title, links)
           /\ link_cache' = (normalized_title :> links) @@ link_cache
           /\ api_log' = Append(api_log, Request("links", normalized_title))
           /\ UNCHANGED failures
        \/ /\ normalized_title # None /\ title \notin DOMAIN link_cache
           /\ raised /\ links = {}
           /\ failures < MaxFailures
           /\ failures' = failures + 1
           /\ api_log' = Append(api_log, Request("links", normalized_title))
           /\ UNCHANGED link_cache

\* get_links(title) returning `links`, or raising (raised): unresolvable title,
\* cache hit, fetch, or failure
get_links(title, links, raised) ==
  LET normalized_title == resolve_title(title)
  IN /\ fetch_log' = Append(fetch_log, title)
     /\ returned' = Answer(links, raised)
     /\ UNCHANGED linkshere_cache
     /\ \/ /\ normalized_title = None
           /\ ~raised /\ links = {}
           /\ UNCHANGED <<link_cache, failures, api_log>>
        \/ /\ normalized_title # None /\ normalized_title \in DOMAIN link_cache
           /\ ~raised /\ links = link_cache[normalized_title]
           /\ UNCHANGED <<link_cache, failures, api_log>>
        \/ /\ normalized_title # None /\ normalized_title \notin DOMAIN link_cache
           /\ ~raised /\ ApiLinks(normalized_title, links)
           /\ link_cache' = (normalized_title :> links) @@ link_cache
           /\ api_log' = Append(api_log, Request("links", normalized_title))
           /\ UNCHANGED failures
        \/ /\ normalized_title # None /\ normalized_title \notin DOMAIN link_cache
           /\ raised /\ links = {}
           /\ failures < MaxFailures
           /\ failures' = failures + 1
           /\ api_log' = Append(api_log, Request("links", normalized_title))
           /\ UNCHANGED link_cache

\* get_linkshere(title) returning `incoming`, or raising
get_linkshere(title, incoming, raised) ==
  LET normalized_title == resolve_title(title)
  IN /\ fetch_log' = Append(fetch_log, title)
     /\ returned' = Answer(incoming, raised)
     /\ UNCHANGED link_cache
     /\ \/ /\ normalized_title = None
           /\ ~raised /\ incoming = {}
           /\ UNCHANGED <<linkshere_cache, failures, api_log>>
        \/ /\ normalized_title # None /\ normalized_title \in DOMAIN linkshere_cache
           /\ ~raised /\ incoming = linkshere_cache[normalized_title]
           /\ UNCHANGED <<linkshere_cache, failures, api_log>>
        \/ /\ normalized_title # None /\ normalized_title \notin DOMAIN linkshere_cache
           /\ ~raised /\ ApiLinksHere(normalized_title, incoming)
           /\ linkshere_cache' = (normalized_title :> incoming) @@ linkshere_cache
           /\ api_log' = Append(api_log, Request("linkshere", normalized_title))
           /\ UNCHANGED failures
        \/ /\ normalized_title # None /\ normalized_title \notin DOMAIN linkshere_cache
           /\ raised /\ incoming = {}
           /\ failures < MaxFailures
           /\ failures' = failures + 1
           /\ api_log' = Append(api_log, Request("linkshere", normalized_title))
           /\ UNCHANGED linkshere_cache

\* ---- how a call ends
Returns(path) == pc' = "done" /\ outcome' = "path" /\ result' = path
ReturnsNone == pc' = "done" /\ outcome' = "none" /\ result' = <<>>
Raises(err) == pc' = "done" /\ outcome' = err /\ result' = <<>>
Continues == pc' = "loop" /\ UNCHANGED <<outcome, result>>

\* the record kept of a pop and of a push
Popped(node, depth, neg_score, uid, side) ==
  [node |-> node, depth |-> depth, neg_score |-> neg_score, uid |-> uid, side |-> side]
Pushed(node, depth, side) == [node |-> node, depth |-> depth, side |-> side]

Init ==
  /\ pc = "idle" /\ outcome = "" /\ result = <<>>
  /\ strategy = "" /\ start = None /\ target = None
  /\ max_depth = 0 /\ max_visited = 0 /\ max_branch = 0
  /\ q = <<>> /\ visited = {} /\ visited_count = 0
  /\ heap = {} /\ uid_counter = 0 /\ scores = EmptyDict
  /\ q_fwd = <<>> /\ q_bwd = <<>> /\ visited_fwd = {} /\ visited_bwd = {}
  /\ parent_fwd = EmptyDict /\ parent_bwd = EmptyDict
  /\ link_cache = EmptyDict /\ linkshere_cache = EmptyDict
  /\ crawl_graph = DiGraph({}) /\ decision_info = {}
  /\ calls = 0 /\ stdout = <<>> /\ batches = <<>>
  /\ api_log = <<>> /\ returned = Answer({}, FALSE)
  /\ dequeued = <<>> /\ enqueued = <<>> /\ fetch_log = <<>> /\ failures = 0

\* the depth test one level too early: pages of depth max_depth - 1 are not expanded
DepthCappedEarly(depth) == depth + 1 >= max_depth

\* the depth test one level too late: pages of depth max_depth are expanded
DepthCappedLate(depth) == depth > max_depth

\* the loops' test `depth >= max_depth` that skips the expansion of a page
DepthCapped(depth) == depth >= max_depth

\* `except Exception: pass`: after a failed fetch the loop goes on with the
\* neighbours left over from the fetch before
neighbors_stale(fetched, raised) ==
  IF ~raised THEN fetched
  ELSE IF fetch_log # <<>> /\ Last(fetch_log) \in DOMAIN link_cache
    THEN link_cache[Last(fetch_log)]
  ELSE {}

\* try: neighbors = self.get_links(current) / except Exception: neighbors = set()
neighbors(fetched, raised) == IF raised THEN {} ELSE fetched

\* the cap test one page too early: the max_visited-th page already raises
CapExceededEarly(count) == count >= max_visited

\* `if visited_count > max_visited: raise RuntimeError(...)`
CapExceeded(count) == count > max_visited

\* the caches emptied with the per-search state
ResetPerSearchAndCaches(nodes) ==
  /\ crawl_graph' = DiGraph(nodes)
  /\ decision_info' = {}
  /\ link_cache' = EmptyDict /\ linkshere_cache' = EmptyDict

\* self.crawl_graph = nx.DiGraph(); add_node(...); self.decision_info = {}:
\* all that a search resets of the crawler
ResetPerSearch(nodes) ==
  /\ crawl_graph' = DiGraph(nodes)
  /\ decision_info' = {}
  /\ UNCHANGED caches

\* the test left out: the search always goes on to its loop
SameTitleNever(s, t) == FALSE

\* `if start == target`, on the resolved titles
SameTitle(s, t) == s = t

\* ---- find_path_bfs

\* q.pop(): the newest entry instead of the oldest
pop_right(queue) ==
  [item |-> Last(queue), rest |-> SubSeq(queue, 1, Len(queue) - 1)]

\* q.popleft(): the entry taken and the queue left
popleft(queue) == [item |-> Head(queue), rest |-> Tail(queue)]

\* the enqueued neighbours are not added to visited
BfsVisitedForgotten(links) == visited

\* visited after the neighbours of an expansion were enqueued
BfsVisited(links) == visited \cup links

\* one list object shared by the siblings: path.append(n) instead of path + [n]
BfsEnqueueSharedPath(path, depth, order) ==
  [i \in 1..Len(order) |->
     [node |-> order[i], path |-> path \o SubSeq(order, 1, i), depth |-> depth + 1]]

\* the entries appended to q for the unvisited neighbours, in iteration order
BfsEnqueue(path, depth, order) ==
  [i \in 1..Len(order) |->
     [node |-> order[i], path |-> Append(path, order[i]), depth |-> depth + 1]]

FindPathBfs(start_title, target_title, md, mv) ==
  /\ pc = "idle"
  /\ strategy' = "bfs" /\ max_depth' = md /\ max_visited' = mv
  /\ start' = resolve_title(start_title)
  /\ target' = resolve_title(target_title)
  /\ calls' = calls + 1
  /\ UNCHANGED <<max_branch, bestlocals, bidilocals, stdout, batches, dequeued, fetch_log, failures,
                 api_log, returned>>
  /\ IF start' = None \/ target' = None
       THEN Raises("ValueError") /\ UNCHANGED <<unilocals, enqueued, graphvars, caches>>
     ELSE IF SameTitle(start', target')
       THEN Returns(<<start'>>) /\ ResetPerSearch({start'})
            /\ UNCHANGED <<unilocals, enqueued>>
     ELSE /\ ResetPerSearch({start'})
          /\ q' = <<[node |-> start', path |-> <<start'>>, depth |-> 0]>>
          /\ visited' = {start'}
          /\ visited_count' = 0
          /\ enqueued' = <<Pushed(start', 0, "fwd")>>
          /\ Continues

BfsPop ==
  /\ pc = "loop" /\ strategy = "bfs" /\ q # <<>>
  /\ visited_count' = visited_count + 1
  /\ dequeued' = Append(dequeued,
       Popped(popleft(q).item.node, popleft(q).item.depth, 0, 0, "fwd"))
  /\ UNCHANGED <<inputs, session, bestlocals, bidilocals>>

BfsCapExceeded ==
  /\ BfsPop
  /\ CapExceeded(visited_count')
  /\ q' = popleft(q).rest
  /\ Raises("RuntimeError")
  /\ UNCHANGED <<visited, caches, graphvars, enqueued, fetch_log, failures, api_log, returned>>

BfsSkipDepth ==
  /\ BfsPop
  /\ ~CapExceeded(visited_count')
  /\ DepthCapped(popleft(q).item.depth)
  /\ q' = popleft(q).rest
  /\ Continues
  /\ UNCHANGED <<visited, caches, graphvars, enqueued, fetch_log, failures, api_log, returned>>

BfsExpand ==
  /\ BfsPop
  /\ ~CapExceeded(visited_count')
  /\ ~DepthCapped(popleft(q).item.depth)
  /\ \E links \in SUBSET Pages, raised \in BOOLEAN :
       LET cur == popleft(q).item
           nb == neighbors(links, raised)
       IN /\ get_links(cur.node, links, raised)
          /\ crawl_graph' = add_edges(crawl_graph, {cur.node} \X nb)
          /\ IF target \in nb
               THEN /\ Returns(Append(cur.path, target))
                    /\ decision_info' = decision_info \cup {<<cur.node, target>>}
                    /\ q' = popleft(q).rest
                    /\ UNCHANGED <<visited, enqueued>>
               ELSE \E order \in Orders(nb \ visited) :
                      /\ decision_info' = decision_info \cup ({cur.node} \X (nb \ visited))
                      /\ q' = popleft(q).rest \o BfsEnqueue(cur.path, cur.depth, order)
                      /\ visited' = BfsVisited(nb)
                      /\ enqueued' = enqueued \o
                           [i \in 1..Len(order) |-> Pushed(order[i], cur.depth + 1, "fwd")]
                      /\ Continues

BfsExhausted ==
  /\ pc = "loop" /\ strategy = "bfs" /\ q = <<>>
  /\ ReturnsNone
  /\ UNCHANGED <<inputs, session, unilocals, bestlocals, bidilocals, caches, graphvars, history>>

CallBfs ==
  /\ pc = "idle"
  /\ \E st \in StartTitles, tt \in TargetTitles, md \in 0..MaxDepth, mv \in VisitedCaps :
       FindPathBfs(st, tt, md, mv)

NextBfs == CallBfs \/ BfsCapExceeded \/ BfsSkipDepth \/ BfsExpand \/ BfsExhausted

SpecBfs == Init /\ [][NextBfs]_vars

\* ---- find_path_best_first

\* _title_score(candidate, target) for each candidate of `cands`: sc[candidate];
\* a title scored before scores the same again
title_scores(cands, sc) ==
  /\ \A c \in cands \cap DOMAIN scores : sc[c] = scores[c]
  /\ scores' = sc @@ scores

\* Python's order on the heap's tuples (neg_score, depth, uid, title, path)
TupleLess(a, b) ==
  \/ a.neg_score < b.neg_score
  \/ a.neg_score = b.neg_score /\ a.depth < b.depth
  \/ a.neg_score = b.neg_score /\ a.depth = b.depth /\ a.uid < b.uid
  \/ a.neg_score = b.neg_score /\ a.depth = b.depth /\ a.uid = b.uid /\ a.node < b.node

\* heappop: the least tuple of the heap
heappop(h) == CHOOSE e \in h : \A o \in h \ {e} : TupleLess(e, o)

\* the sort without reverse=True: lowest score first
InsertByScoreAscending(sorted, x) ==
  LET k == Cardinality({i \in 1..Len(sorted) : sorted[i][1] <= x[1]})
  IN SubSeq(sorted, 1, k) \o <<x>> \o SubSeq(sorted, k + 1, Len(sorted))

\* scored.sort(reverse=True, key=lambda x: x[0]): stable, highest score first
InsertByScore(sorted, x) ==
  LET k == Cardinality({i \in 1..Len(sorted) : sorted[i][1] >= x[1]})
  IN SubSeq(sorted, 1, k) \o <<x>> \o SubSeq(sorted, k + 1, Len(sorted))

RECURSIVE SortByScore(_)
SortByScore(scored) ==
  IF scored = <<>> THEN <<>>
  ELSE InsertByScore(SortByScore(SubSeq(scored, 1, Len(scored) - 1)), Last(scored))

\* seq[:k]
Slice(seq, k) ==
  IF k >= 0 THEN SubSeq(seq, 1, IF k < Len(seq) THEN k ELSE Len(seq))
  ELSE SubSeq(seq, 1, IF Len(seq) + k > 0 THEN Len(seq) + k ELSE 0)

\* the score pushed without its minus sign
BestEntryPositiveScore(path, depth, uid0, top, i) ==
  [neg_score |-> top[i][1], depth |-> depth + 1, uid |-> uid0 + i,
   node |-> top[i][2], path |-> Append(path, top[i][2])]

\* the parent's path pushed as it is, without the neighbour
BestEntryStalePath(path, depth, uid0, top, i) ==
  [neg_score |-> 0 - top[i][1], depth |-> depth + 1, uid |-> uid0 + i,
   node |-> top[i][2], path |-> path]

\* the tuple pushed for the i-th of top_neighbors
BestEntry(path, depth, uid0, top, i) ==
  [neg_score |-> 0 - top[i][1], depth |-> depth + 1, uid |-> uid0 + i,
   node |-> top[i][2], path |-> Append(path, top[i][2])]

FindPathBestFirst(start_title, target_title, md, mv, mb) ==
  /\ pc = "idle"
  /\ strategy' = "best" /\ max_depth' = md /\ max_visited' = mv /\ max_branch' = mb
  /\ start' = resolve_title(start_title)
  /\ target' = resolve_title(target_title)
  /\ calls' = calls + 1
  /\ UNCHANGED <<q, bidilocals, stdout, batches, dequeued, fetch_log, failures, api_log, returned>>
  /\ IF start' = None \/ target' = None
       THEN Raises("ValueError")
            /\ UNCHANGED <<visited, visited_count, bestlocals, enqueued, graphvars, caches>>
     ELSE IF SameTitle(start', target')
       THEN Returns(<<start'>>) /\ ResetPerSearch({start'})
            /\ UNCHANGED <<visited, visited_count, bestlocals, enqueued>>
     ELSE \E sc \in [{start'} -> 0..MaxScore] :
          /\ ResetPerSearch({start'})
          /\ title_scores({start'}, sc)
          /\ heap' = {[neg_score |-> 0 - sc[start'], depth |-> 0, uid |-> 0,
                       node |-> start', path |-> <<start'>>]}
          /\ uid_counter' = 1
          /\ visited' = {start'}
          /\ visited_count' = 0
          /\ enqueued' = <<Pushed(start', 0, "fwd")>>
          /\ Continues

BestPop ==
  /\ pc = "loop" /\ strategy = "best" /\ heap # {}
  /\ visited_count' = visited_count + 1
  /\ dequeued' = Append(dequeued,
       Popped(heappop(heap).node, heappop(heap).depth, heappop(heap).neg_score,
              heappop(heap).uid, "fwd"))
  /\ UNCHANGED <<inputs, session, q, bidilocals>>

BestCapExceeded ==
  /\ BestPop
  /\ CapExceeded(visited_count')
  /\ heap' = heap \ {heappop(heap)}
  /\ Raises("RuntimeError")
  /\ UNCHANGED <<visited, uid_counter, scores, caches, graphvars, enqueued, fetch_log, failures, api_log, returned>>

BestSkipDepth ==
  /\ BestPop
  /\ ~CapExceeded(visited_count')
  /\ DepthCapped(heappop(heap).depth)
  /\ heap' = heap \ {heappop(heap)}
  /\ Continues
  /\ UNCHANGED <<visited, uid_counter, scores, caches, graphvars, enqueued, fetch_log, failures, api_log, returned>>

BestExpand ==
  /\ BestPop
  /\ ~CapExceeded(visited_count')
  /\ ~DepthCapped(heappop(heap).depth)
  /\ \E links \in SUBSET Pages, raised \in BOOLEAN :
       /\ get_links(heappop(heap).node, links, raised)
       /\ crawl_graph' = add_edges(crawl_graph, {heappop(heap).node} \X neighbors(links, raised))
       /\ IF target \in neighbors(links, raised)
            THEN /\ Returns(Append(heappop(heap).path, target))
                 /\ decision_info' = decision_info \cup {<<heappop(heap).node, target>>}
                 /\ heap' = heap \ {heappop(heap)}
                 /\ UNCHANGED <<visited, uid_counter, scores, enqueued>>
            ELSE \E order \in Orders(neighbors(links, raised) \ visited) :
                 \E sc \in [neighbors(links, raised) \ visited -> 0..MaxScore] :
                   LET scored == [i \in 1..Len(order) |-> <<sc[order[i]], order[i]>>]
                       top_neighbors == Slice(SortByScore(scored), max_branch)
                       cur == heappop(heap)
                   IN /\ title_scores(neighbors(links, raised) \ visited, sc)
                      /\ heap' = (heap \ {cur}) \cup
                           {BestEntry(cur.path, cur.depth, uid_counter, top_neighbors, i) :
                              i \in 1..Len(top_neighbors)}
                      /\ uid_counter' = uid_counter + Len(top_neighbors)
                      /\ decision_info' = decision_info \cup
                           {<<cur.node, top_neighbors[i][2]>> : i \in 1..Len(top_neighbors)}
                      /\ visited' = visited \cup
                           {top_neighbors[i][2] : i \in 1..Len(top_neighbors)}
                      /\ enqueued' = enqueued \o
                           [i \in 1..Len(top_neighbors) |->
                              Pushed(top_neighbors[i][2], cur.depth + 1, "fwd")]
                      /\ Continues

BestExhausted ==
  /\ pc = "loop" /\ strategy = "best" /\ heap = {}
  /\ ReturnsNone
  /\ UNCHANGED <<inputs, session, unilocals, bestlocals, bidilocals, caches, graphvars, history>>

CallBest ==
  /\ pc = "idle"
  /\ \E st \in StartTitles, tt \in TargetTitles, md \in 0..MaxDepth, mv \in VisitedCaps,
        mb \in 0..MaxBranch :
       FindPathBestFirst(st, tt, md, mv, mb)

NextBest == CallBest \/ BestCapExceeded \/ BestSkipDepth \/ BestExpand \/ BestExhausted

SpecBest == Init /\ [][NextBest]_vars

\* ---- find_path_bidi

RECURSIVE WalkParentFwd(_, _)
\* left, before it is reversed: node, parent_fwd.get(node), ... until None
WalkParentFwd(parent, node) ==
  IF node = None THEN <<>>
  ELSE <<node>> \o WalkParentFwd(parent, DictGet(parent, node))

RECURSIVE WalkParentBwd(_, _, _)
\* right: the parent_bwd chain after cur, until the target or a missing parent
WalkParentBwd(parent, cur, tgt) ==
  IF cur = None \/ cur = tgt THEN <<>>
  ELSE IF DictGet(parent, cur) = None THEN <<>>
  ELSE <<DictGet(parent, cur)>> \o WalkParentBwd(parent, DictGet(parent, cur), tgt)

Reversed(s) == [i \in 1..Len(s) |-> s[Len(s) + 1 - i]]

reconstruct_bidi_path(pfwd, pbwd, meeting_node, s, t) ==
  LET left == Reversed(WalkParentFwd(pfwd, meeting_node))
      right == WalkParentBwd(pbwd, meeting_node, t)
      full_path == left \o right
      with_start == IF full_path[1] # s THEN <<s>> \o full_path ELSE full_path
  IN IF Last(with_start) # t THEN Append(with_start, t) ELSE with_start

\* the meeting test leaves the two endpoints out of the other side's visited set
inter_ignoring_endpoints(found, visited_other, visited_own) ==
  found \cap (visited_other \ {start, target})

\* the branch tests its own side's visited set (the other branch's line, copied)
inter_own_side(found, visited_other, visited_own) == found \cap visited_own

\* inter = neighbors & visited_bwd (forward), incoming & visited_fwd (backward)
inter(found, visited_other, visited_own) == found \cap visited_other

\* only the first new neighbour is queued
BidiEnqueueFirstOnly(depth, order) ==
  [i \in 1..(IF order = <<>> THEN 0 ELSE 1) |-> [node |-> order[i], depth |-> depth + 1]]

\* q_fwd.append((n, depth + 1)) / q_bwd.append((n, depth + 1)) for each new n
BidiEnqueue(depth, order) ==
  [i \in 1..Len(order) |-> [node |-> order[i], depth |-> depth + 1]]

FindPathBidi(start_title, target_title, md, mv) ==
  /\ pc = "idle"
  /\ strategy' = "bidi" /\ max_depth' = md /\ max_visited' = mv
  /\ start' = resolve_title(start_title)
  /\ target' = resolve_title(target_title)
  /\ calls' = calls + 1
  /\ UNCHANGED <<max_branch, q, visited, bestlocals, stdout, batches, dequeued, fetch_log, failures,
                 api_log, returned>>
  /\ IF start' = None \/ target' = None
       THEN Raises("ValueError")
            /\ UNCHANGED <<visited_count, bidilocals, enqueued, graphvars, caches>>
     ELSE IF SameTitle(start', target')
       THEN Returns(<<start'>>)
            /\ UNCHANGED <<visited_count, bidilocals, enqueued, graphvars, caches>>
     ELSE /\ ResetPerSearch({start', target'})
          /\ parent_fwd' = (start' :> None)
          /\ parent_bwd' = (target' :> None)
          /\ q_fwd' = <<[node |-> start', depth |-> 0]>>
          /\ q_bwd' = <<[node |-> target', depth |-> 0]>>
          /\ visited_fwd' = {start'}
          /\ visited_bwd' = {target'}
          /\ visited_count' = 0
          /\ enqueued' = <<Pushed(start', 0, "fwd"), Pushed(target', 0, "bwd")>>
          /\ Continues

\* the tie given to the backward side: `<` instead of `<=`
ExpandForwardStrict == Len(q_fwd) < Len(q_bwd)

\* `if len(q_fwd) <= len(q_bwd)`: this iteration takes from the forward queue
ExpandForward == Len(q_fwd) <= Len(q_bwd)

BidiPopFwd ==
  /\ pc = "loop" /\ strategy = "bidi" /\ q_fwd # <<>> /\ q_bwd # <<>>
  /\ ExpandForward
  /\ visited_count' = visited_count + 1
  /\ dequeued' = Append(dequeued, Popped(Head(q_fwd).node, Head(q_fwd).depth, 0, 0, "fwd"))
  /\ UNCHANGED <<inputs, session, q, visited, bestlocals, q_bwd, visited_bwd, parent_bwd>>

BidiFwdCapExceeded ==
  /\ BidiPopFwd
  /\ CapExceeded(visited_count')
  /\ q_fwd' = Tail(q_fwd)
  /\ Raises("RuntimeError")
  /\ UNCHANGED <<visited_fwd, parent_fwd, caches, graphvars, enqueued, fetch_log, failures, api_log, returned>>

BidiFwdSkipDepth ==
  /\ BidiPopFwd
  /\ ~CapExceeded(visited_count')
  /\ DepthCapped(Head(q_fwd).depth)
  /\ q_fwd' = Tail(q_fwd)
  /\ Continues
  /\ UNCHANGED <<visited_fwd, parent_fwd, caches, graphvars, enqueued, fetch_log, failures, api_log, returned>>

BidiFwdExpand ==
  /\ BidiPopFwd
  /\ ~CapExceeded(visited_count')
  /\ ~DepthCapped(Head(q_fwd).depth)
  /\ \E links \in SUBSET Pages, raised \in BOOLEAN :
       /\ get_links(Head(q_fwd).node, links, raised)
       /\ crawl_graph' = add_edges(crawl_graph, {Head(q_fwd).node} \X neighbors(links, raised))
       /\ IF inter(neighbors(links, raised), visited_bwd, visited_fwd) # {}
            THEN \E meet \in inter(neighbors(links, raised), visited_bwd, visited_fwd) :
                   /\ Returns(reconstruct_bidi_path(parent_fwd, parent_bwd, meet, start, target))
                   /\ decision_info' = decision_info \cup {<<Head(q_fwd).node, meet>>}
                   /\ q_fwd' = Tail(q_fwd)
                   /\ UNCHANGED <<visited_fwd, parent_fwd, enqueued>>
            ELSE \E order \in Orders(neighbors(links, raised) \ visited_fwd) :
                   /\ visited_fwd' = visited_fwd \cup neighbors(links, raised)
                   /\ decision_info' = decision_info \cup
                        ({Head(q_fwd).node} \X (neighbors(links, raised) \ visited_fwd))
                   /\ parent_fwd' = [n \in neighbors(links, raised) \ visited_fwd |->
                                      Head(q_fwd).node] @@ parent_fwd
                   /\ q_fwd' = Tail(q_fwd) \o BidiEnqueue(Head(q_fwd).depth, order)
                   /\ enqueued' = enqueued \o
                        [i \in 1..Len(order) |-> Pushed(order[i], Head(q_fwd).depth + 1, "fwd")]
                   /\ Continues

BidiPopBwd ==
  /\ pc = "loop" /\ strategy = "bidi" /\ q_fwd # <<>> /\ q_bwd # <<>>
  /\ ~ExpandForward
  /\ visited_count' = visited_count + 1
  /\ dequeued' = Append(dequeued, Popped(Head(q_bwd).node, Head(q_bwd).depth, 0, 0, "bwd"))
  /\ UNCHANGED <<inputs, session, q, visited, bestlocals, q_fwd, visited_fwd, parent_fwd>>

BidiBwdCapExceeded ==
  /\ BidiPopBwd
  /\ CapExceeded(visited_count')
  /\ q_bwd' = Tail(q_bwd)
  /\ Raises("RuntimeError")
  /\ UNCHANGED <<visited_bwd, parent_bwd, caches, graphvars, enqueued, fetch_log, failures, api_log, returned>>

BidiBwdSkipDepth ==
  /\ BidiPopBwd
  /\ ~CapExceeded(visited_count')
  /\ DepthCapped(Head(q_bwd).depth)
  /\ q_bwd' = Tail(q_bwd)
  /\ Continues
  /\ UNCHANGED <<visited_bwd, parent_bwd, caches, graphvars, enqueued, fetch_log, failures, api_log, returned>>

BidiBwdExpand ==
  /\ BidiPopBwd
  /\ ~CapExceeded(visited_count')
  /\ ~DepthCapped(Head(q_bwd).depth)
  /\ \E incoming \in SUBSET Pages, raised \in BOOLEAN :
       /\ get_linkshere(Head(q_bwd).node, incoming, raised)
       /\ crawl_graph' = add_edges(crawl_graph, neighbors(incoming, raised) \X {Head(q_bwd).node})
       /\ IF inter(neighbors(incoming, raised), visited_fwd, visited_bwd) # {}
            THEN \E meet \in inter(neighbors(incoming, raised), visited_fwd, visited_bwd) :
                   /\ Returns(reconstruct_bidi_path(parent_fwd, parent_bwd, meet, start, target))
                   /\ decision_info' = decision_info \cup {<<meet, Head(q_bwd).node>>}
                   /\ q_bwd' = Tail(q_bwd)
                   /\ UNCHANGED <<visited_bwd, parent_bwd, enqueued>>
            ELSE \E order \in Orders(neighbors(incoming, raised) \ visited_bwd) :
                   /\ visited_bwd' = visited_bwd \cup neighbors(incoming, raised)
                   /\ decision_info' = decision_info \cup
                        ((neighbors(incoming, raised) \ visited_bwd) \X {Head(q_bwd).node})
                   /\ parent_bwd' = [n \in neighbors(incoming, raised) \ visited_bwd |->
                                      Head(q_bwd).node] @@ parent_bwd
                   /\ q_bwd' = Tail(q_bwd) \o BidiEnqueue(Head(q_bwd).depth, order)
                   /\ enqueued' = enqueued \o
                        [i \in 1..Len(order) |-> Pushed(order[i], Head(q_bwd).depth + 1, "bwd")]
                   /\ Continues

BidiExhausted ==
  /\ pc = "loop" /\ strategy = "bidi" /\ (q_fwd = <<>> \/ q_bwd = <<>>)
  /\ ReturnsNone
  /\ UNCHANGED <<inputs, session, unilocals, bestlocals, bidilocals, caches, graphvars, history>>

CallBidi ==
  /\ pc = "idle"
  /\ \E st \in StartTitles, tt \in TargetTitles, md \in 0..MaxDepth, mv \in VisitedCaps :
       FindPathBidi(st, tt, md, mv)

NextBidi ==
  \/ CallBidi
  \/ BidiFwdCapExceeded \/ BidiFwdSkipDepth \/ BidiFwdExpand
  \/ BidiBwdCapExceeded \/ BidiBwdSkipDepth \/ BidiBwdExpand
  \/ BidiExhausted

SpecBidi == Init /\ [][NextBidi]_vars

\* ---- the crawler with all three strategies
Next == NextBfs \/ NextBest \/ NextBidi

Spec == Init /\ [][Next]_vars

\* find_path_bfs and find_path_best_first, the two one-directional searches
NextUni == NextBfs \/ NextBest

SpecUni == Init /\ [][NextUni]_vars

\* ---- one crawler used for several calls

\* the call has returned (or raised) to its caller, who may call the crawler again:
\* the call's locals are gone, the crawler's attributes stay
ReturnToCaller ==
  /\ pc = "done" /\ calls < MaxCalls
  /\ pc' = "idle" /\ outcome' = "" /\ result' = <<>>
  /\ strategy' = "" /\ start' = None /\ target' = None
  /\ max_depth' = 0 /\ max_visited' = 0 /\ max_branch' = 0
  /\ q' = <<>> /\ visited' = {} /\ visited_count' = 0
  /\ heap' = {} /\ uid_counter' = 0 /\ scores' = EmptyDict
  /\ q_fwd' = <<>> /\ q_bwd' = <<>> /\ visited_fwd' = {} /\ visited_bwd' = {}
  /\ parent_fwd' = EmptyDict /\ parent_bwd' = EmptyDict
  /\ dequeued' = <<>> /\ enqueued' = <<>> /\ fetch_log' = <<>>
  /\ api_log' = <<>> /\ returned' = Answer({}, FALSE) /\ batches' = <<>>
  /\ UNCHANGED <<caches, graphvars, calls, stdout, failures>>

\* a call of resolve_title, get_links or get_linkshere by the crawler's user
DirectCall(method) ==
  /\ pc = "idle"
  /\ pc' = "done" /\ strategy' = method
  /\ calls' = calls + 1
  /\ UNCHANGED <<start, target, max_depth, max_visited, max_branch, unilocals, bestlocals,
                 bidilocals, graphvars, stdout, batches, dequeued, enqueued>>

CallResolveTitle ==
  /\ DirectCall("resolve_title")
  /\ \E title \in Titles :
       /\ outcome' = "title" /\ result' = <<resolve_title(title)>>
  /\ UNCHANGED <<caches, fetch_log, failures, api_log, returned>>

CallGetLinks ==
  /\ DirectCall("get_links")
  /\ \E title \in Titles, links \in SUBSET Pages, raised \in BOOLEAN :
       /\ get_links(title, links, raised)
       /\ outcome' = (IF raised THEN "Exception" ELSE "links") /\ result' = <<>>

CallGetLinksHere ==
  /\ DirectCall("get_linkshere")
  /\ \E title \in Titles, incoming \in SUBSET Pages, raised \in BOOLEAN :
       /\ get_linkshere(title, incoming, raised)
       /\ outcome' = (IF raised THEN "Exception" ELSE "links") /\ result' = <<>>

\* ---- get_links with the API's answer in batches

\* the entries of the "links" lists: two article titles and a title of another
\* namespace
LinkEntries ==
  {[ns |-> 0, title |-> 2], [ns |-> 0, title |-> 3], [ns |-> 1, title |-> 4]}

\* a response: the links of pages[0] and whether "continue" holds a plcontinue
Responses == [links : SUBSET LinkEntries, plcontinue : BOOLEAN]

\* what the API would answer to the first request and to each continuation; the
\* last answer has no plcontinue
Scripts ==
  UNION {{sc \in [1..n -> Responses] : ~sc[n].plcontinue} : n \in 1..MaxBatches}

\* `links = set()` inside the loop: each batch starts from nothing
add_batch_alone(links, response) ==
  {l.title : l \in {x \in response.links : x.ns = 0}}

\* for l in page.get("links", []): if l.get("ns") == 0: links.add(l.get("title"))
add_batch(links, response) ==
  links \cup {l.title : l \in {x \in response.links : x.ns = 0}}

RECURSIVE fetch_links(_, _, _)
\* the `while True` loop of get_links from request number i on: the links
\* collected and the number of requests made
fetch_links(script, i, links) ==
  IF script[i].plcontinue /\ i < Len(script)
    THEN fetch_links(script, i + 1, add_batch(links, script[i]))
    ELSE [links |-> add_batch(links, script[i]), requests |-> i]

\* get_links called by the crawler's user, the API answering by `script`
CallGetLinksPaged ==
  /\ pc = "idle"
  /\ pc' = "done" /\ strategy' = "get_links" /\ outcome' = "links" /\ result' = <<>>
  /\ calls' = calls + 1
  /\ UNCHANGED <<start, target, max_depth, max_visited, max_branch, unilocals, bestlocals,
                 bidilocals, graphvars, stdout, dequeued, enqueued>>
  /\ \E title \in {1, 2, RedirectTitle, MissingTitle} :
       IF resolve_title(title) = None \/ resolve_title(title) \in DOMAIN link_cache
         THEN /\ \E links \in SUBSET Pages : get_links(title, links, FALSE)
              /\ batches' = <<>>
         ELSE \E script \in Scripts :
                LET fetched == fetch_links(script, 1, {})
                IN /\ get_links(title, fetched.links, FALSE)
                   /\ batches' = SubSeq(script, 1, fetched.requests)

NextGetLinks == CallGetLinksPaged \/ ReturnToCaller

SpecGetLinks == Init /\ [][NextGetLinks]_vars

NextCrawler ==
  \/ NextBfs \/ NextBidi
  \/ CallResolveTitle \/ CallGetLinks \/ CallGetLinksHere
  \/ ReturnToCaller

SpecCrawler == Init /\ [][NextCrawler]_vars

\* ---- calls whose start and target are titles of one page

\* the max_visited arguments of these calls: every cap from 0 on
AllVisitedCaps == 0..(NumPages + 1)

\* the arguments: two titles of the same page, any depth limit, any visited cap
SameTitleArgs ==
  {a \in [start_title : Titles, target_title : Titles, md : 0..MaxDepth, mv : AllVisitedCaps] :
     /\ resolve_title(a.start_title) # None
     /\ resolve_title(a.start_title) = resolve_title(a.target_title)}

CallSameBfs ==
  /\ pc = "idle"
  /\ \E a \in SameTitleArgs : FindPathBfs(a.start_title, a.target_title, a.md, a.mv)

CallSameBest ==
  /\ pc = "idle"
  /\ \E a \in SameTitleArgs, mb \in 0..MaxBranch :
       FindPathBestFirst(a.start_title, a.target_title, a.md, a.mv, mb)

CallSameBidi ==
  /\ pc = "idle"
  /\ \E a \in SameTitleArgs : FindPathBidi(a.start_title, a.target_title, a.md, a.mv)

\* such calls between ordinary breadth-first searches on the same crawler
NextSame == CallSameBfs \/ CallSameBest \/ CallSameBidi \/ NextBfs \/ ReturnToCaller

SpecSame == Init /\ [][NextSame]_vars

\* ---- main: one run of the program

\* resolve_title for the title, else the first search_title hit (`hit`, None if none)
main_resolve(title, hit) ==
  IF resolve_title(title) # None THEN resolve_title(title) ELSE hit

\* the titles main hands to the search, or None where `raise SystemExit` is reached
MainTitles(st, tt, hit_s, hit_t) ==
  [start |-> main_resolve(st, hit_s), target |-> main_resolve(tt, hit_t)]

MainExit ==
  /\ pc = "idle"
  /\ \E st \in StartTitles, tt \in TargetTitles, hit_s \in {1, None}, hit_t \in {1, 2, None} :
       /\ MainTitles(st, tt, hit_s, hit_t).start = None
          \/ MainTitles(st, tt, hit_s, hit_t).target = None
       /\ pc' = "exit" /\ outcome' = "SystemExit" /\ result' = <<>>
  /\ UNCHANGED <<inputs, unilocals, bestlocals, bidilocals, caches, graphvars, session, history>>

MainBfs ==
  /\ pc = "idle"
  /\ \E st \in StartTitles, tt \in TargetTitles, hit_s \in {1, None}, hit_t \in {1, 2, None},
        md \in 0..MaxDepth, mv \in VisitedCaps :
       LET t == MainTitles(st, tt, hit_s, hit_t)
       IN /\ t.start # None /\ t.target # None
          /\ FindPathBfs(t.start, t.target, md, mv)

MainBest ==
  /\ pc = "idle"
  /\ \E st \in StartTitles, tt \in TargetTitles, hit_s \in {1, None}, hit_t \in {1, 2, None},
        md \in 0..MaxDepth, mv \in VisitedCaps, mb \in 0..MaxBranch :
       LET t == MainTitles(st, tt, hit_s, hit_t)
       IN /\ t.start # None /\ t.target # None
          /\ FindPathBestFirst(t.start, t.target, md, mv, mb)

MainBidi ==
  /\ pc = "idle"
  /\ \E st \in StartTitles, tt \in TargetTitles, hit_s \in {1, None}, hit_t \in {1, 2, None},
        md \in 0..MaxDepth, mv \in VisitedCaps :
       LET t == MainTitles(st, tt, hit_s, hit_t)
       IN /\ t.start # None /\ t.target # None
          /\ FindPathBidi(t.start, t.target, md, mv)

\* main after the find_path_* call: the prints of the try block when the call
\* returned, `except ValueError`, or the exception leaving main
MainAfterSearch ==
  /\ pc = "done"
  /\ pc' = "exit"
  /\ stdout' = CASE outcome = "path" -> stdout \o <<"PATH FOUND", "explanation">>
                  [] outcome = "none" -> stdout \o <<"No path found", "explanation">>
                  [] outcome = "ValueError" -> stdout \o <<"Error">>
                  [] OTHER -> stdout
  /\ UNCHANGED <<outcome, result, inputs, calls, batches, unilocals, bestlocals, bidilocals, caches,
                 graphvars, history>>

NextMain ==
  \/ MainExit \/ MainBfs \/ MainBest \/ MainBidi
  \/ BfsCapExceeded \/ BfsSkipDepth \/ BfsExpand \/ BfsExhausted
  \/ BestCapExceeded \/ BestSkipDepth \/ BestExpand \/ BestExhausted
  \/ BidiFwdCapExceeded \/ BidiFwdSkipDepth \/ BidiFwdExpand
  \/ BidiBwdCapExceeded \/ BidiBwdSkipDepth \/ BidiBwdExpand
  \/ BidiExhausted
  \/ MainAfterSearch

SpecMain == Init /\ [][NextMain]_vars

\* ---- _title_score on title texts

\* title texts are sequences of characters; the words they are made of here
Words ==
  {<<>>, <<"a", "b">>, <<"a", "b", "c">>, <<"A", "b", "c">>, <<"c", "a", "B">>}

RECURSIVE join(_)
\* " ".join(words)
join(words) ==
  IF Len(words) = 1 THEN words[1]
  ELSE join(SubSeq(words, 1, Len(words) - 1)) \o <<" ">> \o Last(words)

\* the texts given to _title_score: one to MaxWords words with single spaces
\* between them, so with leading, trailing and doubled spaces where a word is empty
TitleTexts == UNION {{join(ws) : ws \in [1..n -> Words]} : n \in 1..MaxWords}

\* str.lower()
lower(text) ==
  [i \in 1..Len(text) |->
     CASE text[i] = "A" -> "a" [] text[i] = "B" -> "b" [] text[i] = "C" -> "c"
       [] OTHER -> text[i]]

RECURSIVE split_from(_, _, _)
\* str.split() from character i on, `word` being the run of non-blanks read so far
split_from(text, i, word) ==
  IF i > Len(text) THEN (IF word = <<>> THEN <<>> ELSE <<word>>)
  ELSE IF text[i] = " "
         THEN (IF word = <<>> THEN <<>> ELSE <<word>>) \o split_from(text, i + 1, <<>>)
         ELSE split_from(text, i + 1, Append(word, text[i]))

\* str.split(): the runs of non-blank characters, in order
split(text) == split_from(text, 1, <<>>)

\* tkn in cand_lower
is_in(tkn, text) ==
  \E i \in 0..(Len(text) - Len(tkn)) : SubSeq(text, i + 1, i + Len(tkn)) = tkn

RECURSIVE match_len(_, _, _, _, _, _)
\* the length of the common run of a from i (up to ahi) and b from j (up to bhi)
match_len(a, b, i, ahi, j, bhi) ==
  IF i > ahi \/ j > bhi \/ a[i] # b[j] THEN 0
  ELSE 1 + match_len(a, b, i + 1, ahi, j + 1, bhi)

\* SequenceMatcher.find_longest_match without junk: the longest block common to
\* a[alo..ahi] and b[blo..bhi], the one starting earliest in a, then earliest in b
find_longest_match(a, b, alo, ahi, blo, bhi) ==
  LET blocks == {[i |-> i, j |-> j, k |-> match_len(a, b, i, ahi, j, bhi)] :
                   i \in alo..ahi, j \in blo..bhi}
      before(x, y) == \/ x.k > y.k
                      \/ x.k = y.k /\ x.i < y.i
                      \/ x.k = y.k /\ x.i = y.i /\ x.j <= y.j
  IN CHOOSE x \in blocks : \A y \in blocks : before(x, y)

RECURSIVE matches(_, _, _, _, _, _)
\* the total size of SequenceMatcher.get_matching_blocks: the longest block, then
\* the same to its left and to its right
matches(a, b, alo, ahi, blo, bhi) ==
  IF alo > ahi \/ blo > bhi THEN 0
  ELSE LET m == find_longest_match(a, b, alo, ahi, blo, bhi)
       IN IF m.k = 0 THEN 0
          ELSE m.k + matches(a, b, alo, m.i - 1, blo, m.j - 1)
                   + matches(a, b, m.i + m.k, ahi, m.j + m.k, bhi)

\* a fraction
Frac(num, den) == [num |-> num, den |-> den]

\* SequenceMatcher(None, a, b).ratio(): 2.0 * matches / length, 1.0 for two empty texts
ratio(a, b) ==
  IF Len(a) + Len(b) = 0 THEN Frac(1, 1)
  ELSE Frac(2 * matches(a, b, 1, Len(a), 1, Len(b)), Len(a) + Len(b))

\* the tokens taken from the target as it was given
target_tokens_cased(target_title) ==
  SelectSeq(split(target_title), LAMBDA t : Len(t) > 2)

\* [t for t in target_title.lower().split() if len(t) > 2]
target_tokens(target_title) ==
  SelectSeq(split(lower(target_title)), LAMBDA t : Len(t) > 2)

RECURSIVE token_bonus(_, _)
\* the loop over target_tokens, in quarters: one more for each tkn in cand_lower
token_bonus(tokens, cand_lower) ==
  IF tokens = <<>> THEN 0
  ELSE (IF is_in(tokens[1], cand_lower) THEN 1 ELSE 0) + token_bonus(Tail(tokens), cand_lower)

\* _title_score(candidate_title, target_title): ratio + token_bonus, as a fraction
title_score(candidate_title, target_title) ==
  LET r == ratio(lower(candidate_title), lower(target_title))
      quarters == token_bonus(target_tokens(target_title), lower(candidate_title))
  IN Frac(4 * r.num + quarters * r.den, 4 * r.den)

\* what a call of _title_score got and gave
Scored(candidate_title, target_title, score) ==
  [candidate_title |-> candidate_title, target_title |-> target_title, score |-> score]

\* _title_score called by the crawler's user
CallTitleScore ==
  /\ DirectCall("_title_score")
  /\ outcome' = "score" /\ result' = <<>>
  /\ \E candidate_title \in TitleTexts, target_title \in TitleTexts :
       returned' = Scored(candidate_title, target_title,
                          title_score(candidate_title, target_title))
  /\ UNCHANGED <<caches, fetch_log, failures, api_log>>

NextScore == CallTitleScore \/ ReturnToCaller

SpecScore == Init /\ [][NextScore]_vars

\* ---- link graphs and distances, for the statements below

\* the wiki with exactly the links the fetches of this run returned
FetchedWiki == [p \in Pages |-> {t \in Pages : <<p, t>> \in KnownLinks}]

\* the wiki with every link the fetches of this run did not rule out.  Every wiki
\* the run is consistent with lies between FetchedWiki and DensestWiki, and so
\* does the length of its shortest path.
DensestWiki == [p \in Pages |-> {t \in Pages : ~KnownAbsent(p, t)}]

RECURSIVE ReachWithin(_, _, _)
\* the pages at most k links away from page a in wiki G
ReachWithin(G, a, k) ==
  IF k = 0 THEN {a}
  ELSE LET r == ReachWithin(G, a, k - 1) IN r \cup UNION {G[p] : p \in r}

NoPath == NumPages + 1

\* the number of links of a shortest path from a to b in wiki G (NoPath if none)
ShortestLinks(G, a, b) ==
  IF b \notin ReachWithin(G, a, NumPages) THEN NoPath
  ELSE CHOOSE k \in 0..NumPages :
         /\ b \in ReachWithin(G, a, k)
         /\ \A j \in 0..(k - 1) : b \notin ReachWithin(G, a, j)

IsLinkPath(path) ==
  /\ path # <<>>
  /\ path[1] = start
  /\ Last(path) = target
  /\ \A i \in 1..(Len(path) - 1) : <<path[i], path[i + 1]>> \in KnownLinks

NoRepeat(seq) == \A i, j \in 1..Len(seq) : i # j => seq[i] # seq[j]

Nodes(log) == [i \in 1..Len(log) |-> log[i].node]

IsPrefix(a, b) == Len(a) <= Len(b) /\ \A i \in 1..Len(a) : a[i] = b[i]

Found(strat) == pc = "done" /\ strategy = strat /\ outcome = "path"

\* ---- C1
\* C1: when every link fetch succeeded and the visited cap was not reached, a path
\* returned by find_path_bfs has as few links as the shortest start->target path of
\* every wiki the run is consistent with.
C1_BfsShortest ==
  (Found("bfs") /\ failures = 0) =>
    /\ Len(result) - 1 = ShortestLinks(DensestWiki, start, target)
    /\ Len(result) - 1 = ShortestLinks(FetchedWiki, start, target)

C1_Witness ==
  /\ Found("bfs") /\ failures = 0
  /\ Len(result) = 3
  /\ Cardinality(KnownLinks) >= 3

\* ---- C2
\* C2: a path returned by find_path_bidi has the minimum number of links among all
\* start->target paths (fetches succeed, cap not reached, linkshere is the inverse
\* of links).
C2_BidiShortest ==
  (Found("bidi") /\ failures = 0) =>
    Len(result) - 1 = ShortestLinks(FetchedWiki, start, target)

\* ---- C3
\* C3: every path returned by find_path_bidi starts with start, ends with target and
\* each page of it links to the next.
C3_BidiLinkPath == Found("bidi") => IsLinkPath(result)

\* ---- C4
\* C4: every path returned by find_path_bfs or find_path_best_first starts with the
\* resolved start, ends with the resolved target, holds no page twice, and each
\* page's fetched link set contains the next page.
C4_UniLinkPath ==
  (Found("bfs") \/ Found("best")) =>
    /\ IsLinkPath(result)
    /\ NoRepeat(result)
    /\ \A i \in 1..(Len(result) - 1) :
         result[i] \in DOMAIN link_cache /\ result[i + 1] \in link_cache[result[i]]

C4_Witness ==
  /\ Found("best")
  /\ Len(result) = 3
  /\ Cardinality(link_cache[start]) >= 2

\* ---- C5
\* C5: with every fetch succeeding and the cap not reached, find_path_bfs with
\* start # target returns None exactly when the wiki has no start->target path of at
\* most max_depth links (a path of exactly max_depth links is found; max_depth = 0
\* gives None).
C5_BfsNoneIffNoPath ==
  (pc = "done" /\ strategy = "bfs" /\ failures = 0 /\ start # target
     /\ outcome \in {"path", "none"}) =>
    /\ outcome = "none" => ShortestLinks(DensestWiki, start, target) > max_depth
    /\ outcome = "path" => ShortestLinks(FetchedWiki, start, target) <= max_depth
    /\ max_depth = 0 => outcome = "none"

C5_Witness ==
  /\ Found("bfs") /\ failures = 0 /\ start # target
  /\ max_depth = 2
  /\ Len(result) - 1 = max_depth

\* ---- C6
\* C6: a path returned by find_path_bfs or find_path_best_first has at most max_depth
\* links; no page of depth >= max_depth is expanded (has its links fetched) and no
\* page is enqueued with a depth above max_depth.
C6_UniDepthCap ==
  (strategy \in {"bfs", "best"}) =>
    /\ outcome = "path" => Len(result) - 1 <= max_depth
    /\ \A i \in 1..Len(enqueued) : enqueued[i].depth <= max_depth
    /\ \A i \in 1..Len(fetch_log) :
         \E j \in 1..Len(dequeued) :
           dequeued[j].node = fetch_log[i] /\ dequeued[j].depth < max_depth

C6_Witness ==
  /\ strategy = "best" /\ pc = "done" /\ outcome = "none"
  /\ max_depth = 1
  /\ \E i \in 1..Len(dequeued) : dequeued[i].depth = max_depth
  /\ Len(fetch_log) = 1

\* ---- C7
\* C7: a path returned by find_path_bidi has at most max_depth links.
C7_BidiDepthCap == Found("bidi") => Len(result) - 1 <= max_depth

\* ---- C8
\* C8: during one find_path_bfs call every page is enqueued at most once, dequeued at
\* most once and has its links fetched at most once, and the target is never
\* enqueued.
C8_BfsVisitOnce ==
  (strategy = "bfs") =>
    /\ NoRepeat(Nodes(enqueued))
    /\ NoRepeat(Nodes(dequeued))
    /\ NoRepeat(fetch_log)
    /\ \A i \in 1..Len(enqueued) : enqueued[i].node # target

C8_Witness ==
  /\ strategy = "bfs" /\ pc = "done"
  /\ Len(fetch_log) >= 3
  /\ \E p \in DOMAIN link_cache :
       p # start /\ link_cache[p] \cap visited # {}

\* ---- C9
\* C9: find_path_bfs dequeues pages in the order it enqueued them; the depths of the
\* queue's entries never decrease from head to tail and differ by at most 1, and
\* every entry's path has depth + 1 pages.
C9_BfsFifo ==
  (strategy = "bfs") =>
    /\ IsPrefix(Nodes(dequeued), Nodes(enqueued))
    /\ \A i, j \in 1..Len(q) : i < j => q[i].depth <= q[j].depth
    /\ \A i, j \in 1..Len(q) : q[j].depth - q[i].depth <= 1
    /\ \A i \in 1..Len(q) : Len(q[i].path) = q[i].depth + 1
    /\ \A i, j \in 1..Len(dequeued) : i < j => dequeued[i].depth <= dequeued[j].depth

C9_Witness ==
  /\ strategy = "bfs" /\ pc = "loop"
  /\ Len(q) >= 2
  /\ Head(q).depth < Last(q).depth
  /\ Len(dequeued) >= 2

\* ---- C10
\* the position at which a page was pushed
PushIndex(node) == CHOOSE i \in 1..Len(enqueued) : enqueued[i].node = node

\* entry a goes before entry b: higher score, then smaller depth, then pushed earlier
GoesBefore(a, b) ==
  \/ a.neg_score < b.neg_score
  \/ a.neg_score = b.neg_score /\ a.depth < b.depth
  \/ a.neg_score = b.neg_score /\ a.depth = b.depth /\ PushIndex(a.node) < PushIndex(b.node)

\* C10: every pop of find_path_best_first takes the pending entry of highest score,
\* among those the one of smallest depth, among those the one pushed first; the
\* insertion ids of the pending entries are pairwise distinct.
C10_BestPopOrder ==
  [][(strategy = "best" /\ pc = "loop" /\ Len(dequeued') = Len(dequeued) + 1) =>
       /\ \E e \in heap :
            /\ e.node = Last(dequeued').node
            /\ 0 - e.neg_score = scores[e.node]
            /\ \A o \in heap \ {e} : GoesBefore(e, o)
       /\ \A a, b \in heap' : a # b => a.uid # b.uid]_vars

C10_Witness ==
  /\ strategy = "best" /\ pc = "loop"
  /\ Len(dequeued) >= 2
  /\ \E o \in heap :
       /\ o.neg_score = Last(dequeued).neg_score
       /\ o.depth > Last(dequeued).depth
       /\ o.path[Len(o.path) - 1] # Last(dequeued).node
  /\ \E i \in 2..Len(dequeued) : dequeued[i].neg_score < Last(dequeued).neg_score

\* ---- C11
\* the pages pushed by the step just taken
NewlyEnqueued == {enqueued'[i].node : i \in (Len(enqueued) + 1)..Len(enqueued')}

\* C11: each expansion of find_path_best_first enqueues at most max_branch pages; the
\* pages it enqueues are unvisited neighbours of the expanded page, and each scores
\* at least as high as every unvisited neighbour the expansion left out.
C11_BestBranchCap ==
  [][(strategy = "best" /\ pc = "loop" /\ Len(enqueued') > Len(enqueued)) =>
       LET cur == Last(dequeued').node
           unvisited == link_cache'[cur] \ visited
       IN /\ Len(enqueued') - Len(enqueued) <= max_branch
          /\ Cardinality(NewlyEnqueued) = Len(enqueued') - Len(enqueued)
          /\ NewlyEnqueued \subseteq unvisited
          /\ \A n \in NewlyEnqueued : \A u \in unvisited \ NewlyEnqueued :
               scores'[n] >= scores'[u]]_vars

C11_Witness ==
  /\ strategy = "best" /\ pc = "loop"
  /\ max_branch = 1
  /\ Len(dequeued) = 1 /\ Len(enqueued) = 2
  /\ \E u \in link_cache[start] \ visited : scores[u] < scores[enqueued[2].node]

\* ---- C12
\* C12: find_path_best_first is not optimal.  Its path is never shorter than the
\* shortest start->target path of a wiki the run is consistent with (the path
\* find_path_bfs returns there), and for some link graphs and scores it is strictly
\* longer (C12_Witness).
C12_BestNotShorter ==
  (Found("best") /\ failures = 0) =>
    Len(result) - 1 >= ShortestLinks(DensestWiki, start, target)

\* best-first returned 3 links although the links it fetched themselves hold a
\* start->target path of 2 links, within max_depth
C12_Witness ==
  /\ Found("best") /\ failures = 0
  /\ visited_count < max_visited
  /\ Len(result) - 1 = 3
  /\ ShortestLinks(FetchedWiki, start, target) = 2
  /\ ShortestLinks(DensestWiki, start, target) = 2

\* ---- C13
\* one iteration of the find_path_bidi loop took the head of the smaller queue (the
\* forward one on a tie) and fetched the links of `fetches` pages
BidiIteration(fetches) ==
  /\ Len(dequeued') = Len(dequeued) + 1
  /\ Len(fetch_log') = Len(fetch_log) + fetches
  /\ IF Len(q_fwd) <= Len(q_bwd)
       THEN /\ Last(dequeued').side = "fwd" /\ Last(dequeued').node = Head(q_fwd).node
            /\ q_bwd' = q_bwd
            /\ fetches = 1 => (Last(fetch_log') = Head(q_fwd).node
                                /\ linkshere_cache' = linkshere_cache)
       ELSE /\ Last(dequeued').side = "bwd" /\ Last(dequeued').node = Head(q_bwd).node
            /\ q_fwd' = q_fwd
            /\ fetches = 1 => (Last(fetch_log') = Head(q_bwd).node
                                /\ link_cache' = link_cache)

BidiStopsOnEmpty ==
  (q_fwd = <<>> \/ q_bwd = <<>>) =>
    (pc' = "done" /\ outcome' = "none" /\ dequeued' = dequeued /\ fetch_log' = fetch_log)

\* C13: every iteration of find_path_bidi expands exactly one page, taken from the
\* smaller of the two queues (forward, by outgoing links, when len(q_fwd) <=
\* len(q_bwd), else backward, by incoming links); the search stops with None as soon
\* as either queue is empty.
C13_BidiOneExpansion ==
  [][(strategy = "bidi" /\ pc = "loop") =>
       /\ (q_fwd # <<>> /\ q_bwd # <<>>) => BidiIteration(1)
       /\ BidiStopsOnEmpty]_vars

\* the page taken by this iteration passes the visited cap and the depth cap
TakenIsExpanded ==
  /\ visited_count + 1 <= max_visited
  /\ (IF Len(q_fwd) <= Len(q_bwd) THEN Head(q_fwd).depth ELSE Head(q_bwd).depth) < max_depth

\* C13 as amended: every iteration takes exactly one page, from the smaller queue
\* (forward on a tie), and expands it alone, unless its depth is max_depth or more
\* or the visited cap is exceeded: then the iteration expands no page.
C13_BidiOnePop ==
  [][(strategy = "bidi" /\ pc = "loop") =>
       /\ (q_fwd # <<>> /\ q_bwd # <<>>) =>
            BidiIteration(IF TakenIsExpanded THEN 1 ELSE 0)
       /\ BidiStopsOnEmpty]_vars

C13_Witness ==
  /\ strategy = "bidi" /\ pc = "done" /\ outcome = "none"
  /\ \E i \in 1..Len(dequeued) : dequeued[i].side = "bwd"
  /\ \E i \in 1..Len(dequeued) : dequeued[i].depth >= max_depth
  /\ Len(fetch_log) >= 2
  /\ Len(fetch_log) < Len(dequeued)

\* ---- C14
\* the neighbour set the expansion of the step just taken worked with (empty when
\* the fetch raised) and the visited set of the opposite side
StepNeighborSet ==
  LET node == Last(dequeued').node
      cache == IF Last(dequeued').side = "fwd" THEN link_cache' ELSE linkshere_cache'
  IN IF node \in DOMAIN cache THEN cache[node] ELSE {}

OppositeVisited == IF Last(dequeued').side = "fwd" THEN visited_bwd ELSE visited_fwd

\* C14: find_path_bidi returns a path in the first expansion step whose fetched
\* neighbour set holds a page the opposite side has visited, enqueuing nothing in
\* that step and dequeuing nothing afterwards; it returns no path in a step where
\* that intersection is empty.
C14_BidiFirstMeeting ==
  [][(strategy = "bidi" /\ pc = "loop" /\ Len(fetch_log') > Len(fetch_log)) =>
       /\ (StepNeighborSet \cap OppositeVisited # {}) <=> (pc' = "done" /\ outcome' = "path")
       /\ (StepNeighborSet \cap OppositeVisited # {}) =>
            /\ enqueued' = enqueued
            /\ visited_fwd' = visited_fwd /\ visited_bwd' = visited_bwd
            /\ Len(dequeued') = Len(dequeued) + 1
       /\ (StepNeighborSet \cap OppositeVisited = {}) => pc' = "loop"]_vars

C14_Witness ==
  /\ Found("bidi")
  /\ Len(dequeued) >= 3
  /\ Last(dequeued).side = "bwd"
  /\ Len(fetch_log) = Len(dequeued)
  /\ Len(enqueued) >= 4

\* ---- C15
\* C15: in each of the three searches at most max_visited pages are dequeued and
\* expanded per call (both directions of find_path_bidi counted together); the
\* dequeue of page number max_visited + 1 raises RuntimeError before that page's
\* links are fetched, and the call then returns neither a path nor None.
C15_VisitedCap ==
  (strategy # "" /\ outcome # "ValueError" /\ start # target) =>
    /\ visited_count = Len(dequeued)
    /\ Len(dequeued) <= max_visited + 1
    /\ Len(fetch_log) <= max_visited
    /\ outcome = "RuntimeError" <=> Len(dequeued) = max_visited + 1
    /\ outcome = "RuntimeError" =>
         /\ pc = "done" /\ result = <<>>
         /\ Len(fetch_log) < Len(dequeued)
         /\ \A i \in 1..Len(fetch_log) : fetch_log[i] # Last(dequeued).node

C15_Witness ==
  /\ strategy = "bidi" /\ pc = "done" /\ outcome = "RuntimeError"
  /\ Len(fetch_log) = max_visited
  /\ Last(dequeued).side = "bwd"
  /\ \E i \in 1..Len(dequeued) : dequeued[i].side = "fwd"

\* ---- C16
\* the frontier after the step is the frontier before it without the page taken
OnlyTakenLeftFrontier ==
  /\ strategy = "bfs" => q' = Tail(q)
  /\ strategy = "best" => heap' = heap \ {heappop(heap)}
  /\ strategy = "bidi" =>
       IF Last(dequeued').side = "fwd"
         THEN q_fwd' = Tail(q_fwd) /\ q_bwd' = q_bwd
         ELSE q_bwd' = Tail(q_bwd) /\ q_fwd' = q_fwd

\* C16: when the fetch of a page's links (or incoming links) raises during an
\* expansion, the search does not abort: the page counts as having no neighbours,
\* nothing is enqueued from it, the search goes on with the remaining frontier, and
\* no page is fetched a second time in that search.
C16_FetchFailureSkipped ==
  [][(pc = "loop") =>
       /\ (failures' = failures + 1) =>
            /\ pc' = "loop" /\ outcome' = outcome /\ result' = result
            /\ enqueued' = enqueued
            /\ visited' = visited /\ visited_fwd' = visited_fwd /\ visited_bwd' = visited_bwd
            /\ parent_fwd' = parent_fwd /\ parent_bwd' = parent_bwd
            /\ link_cache' = link_cache /\ linkshere_cache' = linkshere_cache
            /\ Len(dequeued') = Len(dequeued) + 1
            /\ OnlyTakenLeftFrontier
       /\ (Len(fetch_log') > Len(fetch_log)) =>
            \A i \in 1..Len(fetch_log) : fetch_log[i] # Last(fetch_log')]_vars

\* a fetch failed, the search went on and found a path through another page
C16_Witness ==
  /\ Found("best") /\ failures = 1
  /\ Len(result) = 3
  /\ \E i \in 1..Len(fetch_log) : fetch_log[i] \notin DOMAIN link_cache
  /\ Last(fetch_log) \in DOMAIN link_cache

\* ---- C17
\* the step just taken called get_links (TRUE) or get_linkshere (FALSE)
CalledGetLinks ==
  \/ strategy' \in {"bfs", "best", "get_links"}
  \/ strategy' = "bidi" /\ Last(dequeued').side = "fwd"

\* the call of the step just taken was answered from `cache` alone
AnsweredFromCache(cache, page) ==
  /\ ~returned'.raised
  /\ returned'.links = cache[page]
  /\ api_log' = api_log
  /\ link_cache' = link_cache /\ linkshere_cache' = linkshere_cache

\* C17: once get_links (get_linkshere) succeeded for a page, every later call for a
\* title that resolves to that page, in any sequence of calls on the crawler,
\* returns the same set and sends no links (linkshere) request to the API.
C17_CachedLinks ==
  [][(Len(fetch_log') > Len(fetch_log)) =>
       LET page == resolve_title(Last(fetch_log'))
       IN /\ (CalledGetLinks /\ page \in DOMAIN link_cache) =>
               AnsweredFromCache(link_cache, page)
          /\ (~CalledGetLinks /\ page \in DOMAIN linkshere_cache) =>
               AnsweredFromCache(linkshere_cache, page)]_vars

\* the links of page 1 were fetched in an earlier call; get_links for the title that
\* redirects to page 1 then answered them without a request
C17_Witness ==
  /\ calls = 2 /\ strategy = "get_links" /\ pc = "done"
  /\ fetch_log = <<RedirectTitle>>
  /\ api_log = <<>>
  /\ 1 \in DOMAIN link_cache
  /\ Cardinality(link_cache[1]) >= 2
  /\ returned = Answer(link_cache[1], FALSE)

\* ---- C18
\* every entry of the dict `cache` is an entry of `cache2`, with the same value
EntriesKept(cache, cache2) ==
  \A p \in DOMAIN cache : p \in DOMAIN cache2 /\ cache2[p] = cache[p]

\* the step just taken entered one of the find_path_* methods
SearchStarted == pc = "idle" /\ strategy' \in {"bfs", "best", "bidi"}

C19_ExplanationPrinted ==
  (pc = "exit" /\ calls = 1) => \E i \in 1..Len(stdout) : stdout[i] = "explanation"

\* ---- C20
\* the namespace-0 titles of the batches a fetch went through
ArticleLinks(responses) ==
  UNION {{l.title : l \in {x \in responses[i].links : x.ns = 0}} : i \in 1..Len(responses)}

\* C20: for a resolvable title whose links the API lists in any finite sequence of
\* continuation batches, get_links returns exactly the titles of the namespace-0
\* links of all the batches, and it stops requesting at the first response without
\* a plcontinue token.
C20_UnionOfBatches ==
  (strategy = "get_links" /\ pc = "done" /\ batches # <<>>) =>
    /\ returned = Answer(ArticleLinks(batches), FALSE)
    /\ link_cache[resolve_title(Last(fetch_log))] = ArticleLinks(batches)
    /\ \A i \in 1..(Len(batches) - 1) : batches[i].plcontinue
    /\ ~Last(batches).plcontinue

\* three batches: an article link in the first, a different one and a link of
\* another namespace in the second, nothing new in the last
C20_Witness ==
  /\ strategy = "get_links" /\ pc = "done"
  /\ Len(batches) = 3
  /\ ArticleLinks(<<batches[1]>>) # {}
  /\ ArticleLinks(<<batches[2]>>) \ ArticleLinks(<<batches[1]>>) # {}
  /\ \E l \in batches[2].links : l.ns # 0
  /\ Cardinality(returned.links) = 2

\* ---- C21
\* the call of _title_score that has just returned
ScoreReturned == strategy = "_title_score" /\ pc = "done"

\* the run of non-blank characters of text that starts at position p
TokenAt(text, p) ==
  LET ends == {e \in p..Len(text) : \A i \in p..e : text[i] # " "}
  IN SubSeq(text, p, CHOOSE e \in ends : \A e2 \in ends : e2 <= e)

\* the positions of text where a token starts
TokenStarts(text) ==
  {p \in 1..Len(text) : text[p] # " " /\ (p = 1 \/ text[p - 1] = " ")}

\* the occurrences in the lower-cased target of tokens longer than 2 characters
\* that are substrings of the lower-cased candidate
BonusTokens(candidate_title, target_title) ==
  {p \in TokenStarts(lower(target_title)) :
     /\ Len(TokenAt(lower(target_title), p)) > 2
     /\ is_in(TokenAt(lower(target_title), p), lower(candidate_title))}

\* fractions a and b are the same number; a is at least b
FracEq(a, b) == a.num * b.den = b.num * a.den

FracGeq(a, b) == a.num * b.den >= b.num * a.den

\* C21: the score of a candidate against the target is the similarity ratio of the
\* lower-cased titles plus 0.25 for every occurrence, in the lower-cased target, of a
\* whitespace-separated token longer than 2 characters that is a substring of the
\* lower-cased candidate; so it is never below the ratio and it is the score of the
\* lower-cased titles.
C21_ScoreIsRatioPlusBonus ==
  ScoreReturned =>
    LET c == returned.candidate_title
        t == returned.target_title
        r == ratio(lower(c), lower(t))
        n == Cardinality(BonusTokens(c, t))
    IN /\ FracEq(returned.score, Frac(4 * r.num + n * r.den, 4 * r.den))
       /\ FracGeq(returned.score, r)
       /\ FracEq(returned.score, title_score(lower(c), lower(t)))

\* a target that repeats a token, given with capitals, against a candidate that
\* holds the token: the bonus is two quarters on top of a ratio below 1
C21_Witness ==
  /\ ScoreReturned
  /\ returned.target_title # lower(returned.target_title)
  /\ returned.candidate_title # lower(returned.candidate_title)
  /\ Cardinality(BonusTokens(returned.candidate_title, returned.target_title)) = 2
  /\ Len(target_tokens(returned.target_title)) = 2
  /\ target_tokens(returned.target_title)[1] = target_tokens(returned.target_title)[2]
  /\ ~FracEq(ratio(lower(returned.candidate_title), lower(returned.target_title)), Frac(1, 1))
  /\ FracEq(returned.score,
            Frac(2 * ratio(lower(returned.candidate_title), lower(returned.target_title)).num
                   + ratio(lower(returned.candidate_title), lower(returned.target_title)).den,
                 2 * ratio(lower(returned.candidate_title), lower(returned.target_title)).den))

\* ---- C22
\* the parent map of the side that took the step just made
OwnParent == IF Last(dequeued').side = "fwd" THEN parent_fwd ELSE parent_bwd

\* C22: all through find_path_bidi the forward and the backward visited sets are
\* disjoint, and so are the key sets of parent_fwd and parent_bwd; so the meeting
\* node a forward expansion returns with is not a key of parent_fwd, and the one a
\* backward expansion returns with is not a key of parent_bwd.
C22_BidiSidesDisjoint ==
  /\ [](strategy = "bidi" =>
          /\ visited_fwd \cap visited_bwd = {}
          /\ DOMAIN parent_fwd \cap DOMAIN parent_bwd = {}
          /\ DOMAIN parent_fwd = visited_fwd /\ DOMAIN parent_bwd = visited_bwd)
  /\ [][(strategy = "bidi" /\ pc = "loop" /\ pc' = "done" /\ outcome' = "path") =>
          /\ StepNeighborSet \cap OppositeVisited # {}
          /\ \A meet \in StepNeighborSet \cap OppositeVisited : meet \notin DOMAIN OwnParent]_vars

\* a path found by a backward expansion after both sides have grown
C22_Witness ==
  /\ Found("bidi")
  /\ Cardinality(visited_fwd) >= 3 /\ Cardinality(visited_bwd) >= 2
  /\ Cardinality(DOMAIN parent_fwd) >= 3 /\ Cardinality(DOMAIN parent_bwd) >= 2
  /\ Len(dequeued) >= 1 /\ Last(dequeued).side = "bwd"

\* ---- C23
\* a bidirectional search that ended with every fetch answered and the cap not hit
BidiEndedClean ==
  /\ pc = "done" /\ strategy = "bidi" /\ failures = 0
  /\ outcome \in {"path", "none"}

\* C23: with linkshere the exact inverse of links, every fetch succeeding and the
\* visited cap not reached, find_path_bidi does not return None when the wiki has a
\* start->target path of at most max_depth links: after None not even the densest
\* wiki the run is consistent with has one.
C23_BidiFindsShortPaths ==
  BidiEndedClean =>
    /\ ShortestLinks(FetchedWiki, start, target) <= max_depth => outcome = "path"
    /\ outcome = "none" => ShortestLinks(DensestWiki, start, target) > max_depth

\* a shortest path of exactly max_depth = 2 links, found after both sides expanded
C23_Witness ==
  /\ BidiEndedClean /\ outcome = "path"
  /\ max_depth = 2
  /\ ShortestLinks(FetchedWiki, start, target) = 2
  /\ ShortestLinks(DensestWiki, start, target) = 2
  /\ DOMAIN link_cache # {} /\ DOMAIN linkshere_cache # {}
  /\ ~CapExceeded(visited_count + 1)

\* ---- C24
\* a search is under way or over whose start and target resolved to one page
SameResolved ==
  /\ strategy \in {"bfs", "best", "bidi"}
  /\ start # None /\ start = target

\* C24: when start and target resolve to the same canonical title, each of
\* find_path_bfs, find_path_best_first and find_path_bidi returns the one-element
\* path [start] at once, without a get_links or get_linkshere call, a request or a
\* dequeue, for every max_depth (0 included) and every max_visited (0 included).
C24_SameTitleReturnsStart ==
  SameResolved =>
    /\ pc = "done" /\ outcome = "path" /\ result = <<start>>
    /\ fetch_log = <<>> /\ api_log = <<>>
    /\ dequeued = <<>> /\ enqueued = <<>>

\* the second call on a crawler whose first search filled the link cache: a redirect
\* title against its page, max_depth = 0 and max_visited = 0
C24_Witness ==
  /\ SameResolved /\ pc = "done"
  /\ strategy = "bidi"
  /\ max_depth = 0 /\ max_visited = 0
  /\ calls = 2 /\ DOMAIN link_cache # {}
  /\ result = <<1>>

====
